---- MODULE Spec2Model ----
(***************************************************************************)
(* thinFilmCalc: an interactive session over a library file (films.txt),   *)
(* a measurement log (data.txt) and an in-memory vector<Thin_film>.        *)
(*                                                                         *)
(* Files are sequences of one-character strings.  A double is an integer   *)
(* number of millionths (Scale); the values the model feeds in have at     *)
(* most six decimals and a magnitude of 0 or in [0.0001, 1000), so that    *)
(* text -> double is exact and operator<< stays in fixed notation.         *)
(***************************************************************************)
EXTENDS Integers, Sequences, FiniteSets, TLC

VARIABLES
    films,          \* content of films.txt, a sequence of characters
    data,           \* data.txt: the films whose result line was appended
    materialList,   \* main's vector<Thin_film>
    pc,             \* "start", "menu", "calc", "exit", "terminated", "crashed";
                    \* "saved" and "record" in the store and record specifications
    status,         \* exit status, read once pc is "exit" or "terminated"
    last,           \* the operation that ran last: what the user typed, what
                    \* was printed, which open failed
    films0          \* films.txt as it was at startup

vars == <<films, data, materialList, pc, status, last, films0>>

-----------------------------------------------------------------------------
(* Numbers and characters *)

Scale == 1000000

\* default precision of an ostream: significant digits written by operator<<
Precision == 6

NL == "\n"

SP == " "

Digits == <<"0", "1", "2", "3", "4", "5", "6", "7", "8", "9">>

IsDigit(c) == \E i \in 1..10 : Digits[i] = c

DigitVal(c) == (CHOOSE i \in 1..10 : Digits[i] = c) - 1

IsSpace(c) == c \in {SP, NL}

RECURSIVE Pow10(_)
Pow10(n) == IF n <= 0 THEN 1 ELSE 10 * Pow10(n - 1)

RECURSIVE NumDigits(_)
NumDigits(n) == IF n < 10 THEN 1 ELSE 1 + NumDigits(n \div 10)

-----------------------------------------------------------------------------
(* istream: fin >> ws, getline(fin, s), fin >> double *)

\* a stream over buffer buf: next position to read and the state bits
StreamAt(p) == [pos |-> p, eof |-> FALSE, fail |-> FALSE]

good(st) == ~st.eof /\ ~st.fail

RECURSIVE SkipWs(_, _)
SkipWs(buf, p) ==
    IF p <= Len(buf) /\ IsSpace(buf[p]) THEN SkipWs(buf, p + 1) ELSE p

RECURSIVE SkipDigits(_, _)
SkipDigits(buf, p) ==
    IF p <= Len(buf) /\ IsDigit(buf[p]) THEN SkipDigits(buf, p + 1) ELSE p

RECURSIVE LineEnd(_, _)
LineEnd(buf, p) ==
    IF p <= Len(buf) /\ buf[p] # NL THEN LineEnd(buf, p + 1) ELSE p

\* std::ws: skips whitespace, sets eofbit (only) when the input runs out
ws(buf, st) ==
    IF ~good(st) THEN [st EXCEPT !.fail = TRUE]
    ELSE LET q == SkipWs(buf, st.pos)
         IN  [pos |-> q, eof |-> q > Len(buf), fail |-> FALSE]

\* std::getline: the rest of the line without its newline; str is kept when
\* the stream is not good on entry
getline(buf, st, str) ==
    IF ~good(st) THEN [st |-> [st EXCEPT !.fail = TRUE], str |-> str]
    ELSE LET e == LineEnd(buf, st.pos)
         IN  IF e <= Len(buf)
             THEN [st |-> [pos |-> e + 1, eof |-> FALSE, fail |-> FALSE],
                   str |-> SubSeq(buf, st.pos, e - 1)]
             ELSE [st |-> [pos |-> e, eof |-> TRUE, fail |-> e = st.pos],
                   str |-> SubSeq(buf, st.pos, e - 1)]

\* value of the digits buf[p..e-1] as an integer
RECURSIVE IntVal(_, _, _)
IntVal(buf, p, e) ==
    IF e <= p THEN 0
    ELSE 10 * IntVal(buf, p, e - 1) + DigitVal(buf[e - 1])

\* value, in millionths, of the fraction digits buf[p..e-1]
RECURSIVE FracVal(_, _, _)
FracVal(buf, p, e) ==
    IF e <= p \/ e - p > 6 THEN (IF e <= p THEN 0 ELSE FracVal(buf, p, e - 1))
    ELSE FracVal(buf, p, e - 1) + DigitVal(buf[e - 1]) * Pow10(6 - (e - p))

\* operator>>(double&): skips whitespace, then takes [-]digits[.digits];
\* reaching the end of input while reading the number sets eofbit
readDouble(buf, st, val) ==
    IF ~good(st) THEN [st |-> [st EXCEPT !.fail = TRUE], val |-> val]
    ELSE LET q == SkipWs(buf, st.pos)
         IN  IF q > Len(buf)
             THEN [st |-> [pos |-> q, eof |-> TRUE, fail |-> TRUE], val |-> val]
             ELSE LET neg == buf[q] = "-"
                      i0  == IF neg THEN q + 1 ELSE q
                      i1  == SkipDigits(buf, i0)
                      dot == i1 <= Len(buf) /\ buf[i1] = "."
                      f0  == IF dot THEN i1 + 1 ELSE i1
                      f1  == SkipDigits(buf, f0)
                      ok  == (i1 > i0) \/ (f1 > f0)
                      mag == IntVal(buf, i0, i1) * Scale + FracVal(buf, f0, f1)
                  IN  [st  |-> [pos |-> f1, eof |-> f1 > Len(buf), fail |-> ~ok],
                       val |-> IF ~ok THEN 0 ELSE IF neg THEN 0 - mag ELSE mag]

-----------------------------------------------------------------------------
(* ostream: fout << double *)

\* decimal digits of n >= 0
RECURSIVE IntChars(_)
IntChars(n) ==
    IF n < 10 THEN <<Digits[n + 1]>>
    ELSE Append(IntChars(n \div 10), Digits[(n % 10) + 1])

\* the w digits of f (0 <= f < 10^w) without trailing zeros
RECURSIVE FracChars(_, _)
FracChars(f, w) ==
    IF f = 0 \/ w = 0 THEN <<>>
    ELSE <<Digits[(f \div Pow10(w - 1)) + 1]>> \o FracChars(f % Pow10(w - 1), w - 1)

\* m >= 0 millionths rounded to Precision significant digits
RoundSig(m) ==
    LET d    == NumDigits(m)
        unit == Pow10(d - Precision)
    IN  IF d <= Precision THEN m ELSE ((m + unit \div 2) \div unit) * unit

\* operator<<(double) with the stream defaults (general notation)
FormatDouble(v) ==
    LET m == RoundSig(IF v < 0 THEN 0 - v ELSE v)
        s == IF v < 0 THEN <<"-">> ELSE <<>>
        f == FracChars(m % Scale, 6)
    IN  s \o IntChars(m \div Scale) \o (IF f = <<>> THEN <<>> ELSE <<".">> \o f)

\* the w digits of f (0 <= f < 10^w), leading and trailing zeros kept
RECURSIVE FixedDigits(_, _)
FixedDigits(f, w) ==
    IF w = 0 THEN <<>>
    ELSE <<Digits[(f \div Pow10(w - 1)) + 1]>> \o FixedDigits(f % Pow10(w - 1), w - 1)

\* operator<<(double) after setf(ios::fixed) and setprecision(p), 0 < p <= 6
Fixed(v, p) ==
    LET unit == Pow10(6 - p)
        m    == ((IF v < 0 THEN 0 - v ELSE v) + unit \div 2) \div unit
        s    == IF v < 0 THEN <<"-">> ELSE <<>>
    IN  s \o IntChars(m \div Pow10(p)) \o <<".">> \o FixedDigits(m % Pow10(p), p)

-----------------------------------------------------------------------------
(* double arithmetic on millionths; every intermediate value stays below   *)
(* 2^31, which holds for magnitudes under 2147                              *)

Abs(a) == IF a < 0 THEN 0 - a ELSE a

\* a * b for a, b >= 0, cut to millionths
MulAbs(a, b) ==
    LET a1 == a \div 1000
        a0 == a % 1000
        b1 == b \div 1000
        b0 == b % 1000
    IN  a1 * b1 + (a1 * b0 + a0 * b1 + (a0 * b0) \div 1000) \div 1000

\* whether a * b, for a, b >= 0, has digits beyond the millionths
MulCut(a, b) ==
    LET a1 == a \div 1000
        a0 == a % 1000
        b1 == b \div 1000
        b0 == b % 1000
    IN  \/ (a0 * b0) % 1000 # 0
        \/ (a1 * b0 + a0 * b1 + (a0 * b0) \div 1000) % 1000 # 0

\* a * b
Mul(a, b) ==
    IF (a < 0) = (b < 0) THEN MulAbs(Abs(a), Abs(b))
    ELSE 0 - MulAbs(Abs(a), Abs(b))

\* a, not halved
NotHalved(a) == a

\* a / 2.0
Half(a) == IF a < 0 THEN 0 - ((0 - a) \div 2) ELSE a \div 2

\* the r in lo..(hi - 1) with r * r <= x < (r + 1) * (r + 1)
RECURSIVE SqrtBetween(_, _, _)
SqrtBetween(x, lo, hi) ==
    IF hi - lo <= 1 THEN lo
    ELSE LET mid == (lo + hi) \div 2
             sq  == MulAbs(mid, mid)
         IN  IF sq < x \/ (sq = x /\ ~MulCut(mid, mid)) THEN SqrtBetween(x, mid, hi)
             ELSE SqrtBetween(x, lo, mid)

\* a double that is a number, and the one that is not
Num(v) == [nan |-> FALSE, val |-> v]

NaN == [nan |-> TRUE, val |-> 0]

\* sqrt(double): not a number for a negative argument
sqrt(x) == IF x < 0 THEN NaN ELSE Num(SqrtBetween(x, 0, x + Scale))

-----------------------------------------------------------------------------
(* class Thin_film *)

\* Thin_film::Thin_film()
DefaultFilm ==
    [mat |-> <<>>, index |-> 0, spectralRange |-> 0, numberOfMaxima |-> 0]

setMat(film, newMat) == [film EXCEPT !.mat = newMat]

setspectralRange(film, newSpectralRange) ==
    [film EXCEPT !.spectralRange =
        IF newSpectralRange < 0 THEN 0 ELSE newSpectralRange]

setIndex(film, newIndex) ==
    [film EXCEPT !.index = IF newIndex < 0 THEN 0 ELSE newIndex]

\* setnumberOfMaxima without the test for a negative value
setnumberOfMaximaUnchecked(film, newMaxima) ==
    [film EXCEPT !.numberOfMaxima = newMaxima]

setnumberOfMaxima(film, newMaxima) ==
    [film EXCEPT !.numberOfMaxima = IF newMaxima < 0 THEN 0 ELSE newMaxima]

\* getThickness without the square root factor
getThicknessNoRoot(film) ==
    Num(Half(Mul(film.numberOfMaxima, film.spectralRange)))

\* Thin_film::getThickness:
\*   (numberOfMaxima * spectralRange) / 2.0 * sqrt(double((index * index) - 1))
getThickness(film) ==
    LET half == Half(Mul(film.numberOfMaxima, film.spectralRange))
        root == sqrt(Mul(film.index, film.index) - Scale)
    IN  IF root.nan THEN NaN ELSE Num(Mul(half, root.val))

\* Thin_film::printLib: the name and the index with two decimals
printLib(film) == [mat |-> film.mat, index |-> Fixed(film.index, 2)]

\* Thin_film::read(): the four fields as the user typed them
readCin(film, newMat, newIndex, newSpectralRange, newMaxima) ==
    [mat |-> newMat, index |-> newIndex,
     spectralRange |-> newSpectralRange, numberOfMaxima |-> newMaxima]

\* Thin_film::read(ifstream&): fin >> ws; getline(fin, mat); fin >> index
readFin(buf, st, film) ==
    LET g == getline(buf, ws(buf, st), film.mat)
        d == readDouble(buf, g.st, film.index)
    IN  [st |-> d.st, film |-> [film EXCEPT !.mat = g.str, !.index = d.val]]

\* Thin_film::writeFile: fout << mat << endl << index << endl
writeFile(film) == film.mat \o <<NL>> \o FormatDouble(film.index) \o <<NL>>

-----------------------------------------------------------------------------
(* Library store *)

\* the while (fin.good()) loop of loadData
RECURSIVE loadLoop(_, _, _, _)
loadLoop(buf, st, film, list) ==
    IF ~good(st) THEN list
    ELSE LET r == readFin(buf, st, film)
         IN  loadLoop(buf, r.st, r.film,
                      IF good(r.st) THEN Append(list, r.film) ELSE list)

\* loadData once the file is open
loadData(list, buf) == loadLoop(buf, StreamAt(1), DefaultFilm, list)

\* saveData once the file is open: the new content of the file
RECURSIVE saveData(_)
saveData(list) ==
    IF list = <<>> THEN <<>>
    ELSE writeFile(Head(list)) \o saveData(Tail(list))

\* stands for a negative int converted to unsigned: above every vector size
UINT_WRAP == 2147483647

\* for (unsigned i = pos; i < materialList.size() - 1; i++)
\*     materialList[i] = materialList[i + 1];
RECURSIVE shiftLoop(_, _)
shiftLoop(list, i) ==
    IF i < Len(list) - 1
    THEN shiftLoop([list EXCEPT ![i + 1] = list[i + 2]], i + 1)
    ELSE list

\* deleteFilm's loop with a signed loop variable, clamped at slot 0
removeAtSigned(list, pos) ==
    LET shifted == shiftLoop(list, IF pos < 0 THEN 0 ELSE pos)
    IN  SubSeq(shifted, 1, Len(shifted) - 1)

\* the list after deleteFilm's loop and pop_back, for a non-empty list
removeAt(list, pos) ==
    LET i       == IF pos < 0 THEN UINT_WRAP ELSE pos
        shifted == shiftLoop(list, i)
    IN  SubSeq(shifted, 1, Len(shifted) - 1)

\* getFilmIndex returning the number as typed
getFilmIndexAsTyped(entered) == entered

\* getFilmIndex: the number the user typed, minus one
getFilmIndex(entered) == entered - 1

-----------------------------------------------------------------------------
(* What the environment supplies: files at startup and console input *)

\* most records in films.txt at startup
MaxPairs == 2

\* CALCULATE is taken while materialList has fewer elements than this
MaxList == 3

\* ADD is taken while films.txt is shorter than this
MaxFile == 12

\* most lines of data.txt
MaxLog == 1

\* name lines and index lines a library file is made of
NameLines == {<<"s">>, <<"s", SP, "t">>}

IndexLines == {<<"1", ".", "4", "6">>,
               <<"1", ".", "4", "5", "7", "0", "1", "8">>,
               <<"2", ".", "0", "5">>}

PairText(n, x) == n \o <<NL>> \o x \o <<NL>>

\* files of exactly k complete, newline-terminated pairs
RECURSIVE PairFiles(_)
PairFiles(k) ==
    IF k = 0 THEN {<<>>}
    ELSE {f \o PairText(n, x) : f \in PairFiles(k - 1), n \in NameLines, x \in IndexLines}

CompleteFiles == UNION {PairFiles(k) : k \in 0..MaxPairs}

\* the same files without the newline after the last index line
UnterminatedFiles == {SubSeq(f, 1, Len(f) - 1) : f \in CompleteFiles \ {<<>>}}

\* files that end in a name line with no index line
PartialFiles ==
    {f \o n \o <<NL>> : f \in UNION {PairFiles(k) : k \in 0..(MaxPairs - 1)},
                        n \in NameLines}

LibraryFiles == CompleteFiles \cup UnterminatedFiles \cup PartialFiles

\* films.txt at the start of a session, as an earlier session wrote it
SessionRecord(k) == PairText(<<"s">>, <<"1", ".", "4", "5", "7", "0", "1", "8">>)

RECURSIVE SessionPairs(_)
SessionPairs(k) ==
    IF k = 0 THEN <<>> ELSE SessionPairs(k - 1) \o SessionRecord(k)

SessionFiles == {SessionPairs(k) : k \in 0..MaxPairs}

\* what the user types
Answers == {"y", "n"}

UserNames == {<<"u">>}

\* refractive indices typed in ADD
UserIndex == {0 - 1500000, 2050000}

\* refractive indices typed in the direct-input branch of CALCULATE
DirectIndex == {0 - 1500000}

UserRange == {50 * Scale}

UserMaxima == {3 * Scale}

\* what an out-of-bounds read of the vector may yield
GarbageFilms == {DefaultFilm}

\* what the console showed and which open failed, besides what was typed
NoOp ==
    [op |-> "NONE", lib |-> "-", pos |-> 0, film |-> DefaultFilm,
     save |-> "-", log |-> "-", fail |-> "-", msg |-> "",
     rows |-> <<>>, value |-> 0, thickness |-> Num(0)]

\* messages of the program
LoadFailMsg == "File films.txt failed to open."

OutputFailMsg == "Output file failed to open."

Goodbye == "Goodbye!"

\* menu items
CAL_THICKNESS == 1

MATERIAL_LIST == 2

ADD_MATERIAL == 3

DEL_MATERIAL == 4

EXIT == 0

\* whether an open succeeds; no file is opened unless the answer is y
OpenOutcomes(answer) == IF answer = "y" THEN BOOLEAN ELSE {TRUE}

\* a menu choice that is no menu item
OtherChoices == {5}

\* positions typed at DELETE's prompt for a list of n films
DeletePositions(n) == (0 - 1)..(n + 1)

-----------------------------------------------------------------------------
(* The session *)

Init ==
    /\ films \in SessionFiles
    /\ films0 = films
    /\ data = <<>>
    /\ materialList = <<>>
    /\ pc = "start"
    /\ status = 0
    /\ last = NoOp

\* return from the function in place of exit(code)
ReturnToCaller(code) ==
    /\ pc' = "menu"
    /\ status' = code

\* exit(code): nothing else changes
Terminate(code) ==
    /\ pc' = "terminated"
    /\ status' = code

\* main, lines 312-313: loadData(materialList, "films.txt")
Load ==
    /\ pc = "start"
    /\ \E opened \in BOOLEAN :
        IF opened
        THEN /\ materialList' = loadData(materialList, films)
             /\ pc' = "menu"
             /\ last' = [NoOp EXCEPT !.op = "LOAD"]
             /\ UNCHANGED <<films, data, status, films0>>
        ELSE /\ Terminate(1)
             /\ last' = [NoOp EXCEPT !.op = "LOAD", !.fail = "films.txt",
                                     !.msg = LoadFailMsg]
             /\ UNCHANGED <<films, data, materialList, films0>>

\* the while (choice != 0) of main
whileChoiceForever(choice) == TRUE

whileChoice(choice) == choice # 0

\* the table listFilms prints: the header, then a numbered row for each film
HeaderRow ==
    [num |-> 0, mat |-> <<"M", "a", "t", "e", "r", "i", "a", "l">>,
     index |-> <<"I", "n", "d", "e", "x">>]

rowNumberFromZero(num) == num

rowNumber(num) == num + 1

listRows(list) ==
    <<HeaderRow>> \o
    [k \in 1..Len(list) |->
        [num |-> rowNumber(k - 1), mat |-> printLib(list[k]).mat,
         index |-> printLib(list[k]).index]]

\* fout.open(fileName, ios::app) without the append flag, then the line
appendLineTruncating(log, film) == <<film>>

\* fout.open(fileName, ios::app), then the one line of writeMeasResultFile
appendLine(log, film) == Append(log, film)

\* Thin_film::writeMeasResultFile, then the "Enter another thin film?" prompt
\* of calculateThickness
writeMeasResultFile(film, answer, opened, repeat) ==
    IF answer = "y" /\ ~opened
    THEN /\ Terminate(0 - 1)
         /\ UNCHANGED data
    ELSE /\ data' = IF answer = "y" THEN appendLine(data, film) ELSE data
         /\ pc' = IF repeat = "y" THEN "calc" ELSE "menu"
         /\ UNCHANGED status

\* one pass of the loop of calculateThickness, library branch, with the film
\* that materialList[pos] yielded
calcFromLibrary(entered, film, newSpectralRange, newMaxima, log, opened, repeat) ==
    LET measured == setnumberOfMaxima(setspectralRange(film, newSpectralRange),
                                      newMaxima)
        failed   == log = "y" /\ ~opened
    IN  /\ materialList' = Append(materialList, film)
        /\ writeMeasResultFile(measured, log, opened, repeat)
        /\ last' = [NoOp EXCEPT !.op = "CALC", !.lib = "y", !.pos = entered,
                                !.film = measured, !.log = log,
                                !.fail = IF failed THEN "data.txt" ELSE "-",
                                !.msg = IF failed THEN OutputFailMsg ELSE ""]
        /\ UNCHANGED films

\* one pass of the loop of calculateThickness, direct-input branch
calcDirect(unknown, save, savedOpened, log, opened, repeat) ==
    /\ materialList' = Append(materialList, unknown)
    /\ IF save = "y" /\ ~savedOpened
       THEN /\ Terminate(0 - 1)
            /\ last' = [NoOp EXCEPT !.op = "CALC", !.lib = "n",
                                    !.film = unknown, !.save = save,
                                    !.fail = "films.txt", !.msg = OutputFailMsg]
            /\ UNCHANGED <<films, data>>
       ELSE LET failed == log = "y" /\ ~opened
            IN  /\ films' = IF save = "y" THEN saveData(materialList') ELSE films
                /\ writeMeasResultFile(unknown, log, opened, repeat)
                /\ last' = [NoOp EXCEPT !.op = "CALC", !.lib = "n",
                                        !.film = unknown, !.save = save,
                                        !.log = log,
                                        !.fail = IF failed THEN "data.txt" ELSE "-",
                                        !.msg = IF failed THEN OutputFailMsg ELSE ""]

\* one pass of the loop of calculateThickness, taken while data.txt has fewer
\* than maxLog lines
calcPass(maxLog) ==
    /\ pc \in {"menu", "calc"}
    /\ Len(materialList) < MaxList
    /\ \E libFilm \in Answers, log \in Answers :
       \E opened \in OpenOutcomes(log) :
       \E repeat \in (IF opened THEN Answers ELSE {"n"}) :
        /\ log = "y" => Len(data) < maxLog
        /\ IF libFilm = "y"
           THEN \E entered \in 0..(Len(materialList) + 1),
                   newSpectralRange \in UserRange, newMaxima \in UserMaxima :
                LET pos == getFilmIndex(entered)
                IN  IF pos >= 0 /\ pos < Len(materialList)
                    THEN calcFromLibrary(entered, materialList[pos + 1],
                                         newSpectralRange, newMaxima,
                                         log, opened, repeat)
                    ELSE \/ /\ pc' = "crashed"
                            /\ last' = [NoOp EXCEPT !.op = "CALC", !.lib = "y",
                                                    !.pos = entered]
                            /\ UNCHANGED <<films, data, materialList, status>>
                         \/ \E g \in GarbageFilms :
                              calcFromLibrary(entered, g, newSpectralRange,
                                              newMaxima, log, opened, repeat)
           ELSE \E newMat \in UserNames, newIndex \in DirectIndex,
                   newSpectralRange \in UserRange, newMaxima \in UserMaxima,
                   save \in Answers :
                \E savedOpened \in OpenOutcomes(save) :
                calcDirect(readCin(DefaultFilm, newMat, newIndex,
                                   newSpectralRange, newMaxima),
                           save, savedOpened, log, opened, repeat)
    /\ UNCHANGED films0

\* menu choice 1, or another pass after answering y to "Enter another thin film?"
calculateThickness == calcPass(MaxLog)

\* menu choice 2
listFilms ==
    /\ pc = "menu"
    /\ last' = [NoOp EXCEPT !.op = "LIST", !.rows = listRows(materialList)]
    /\ UNCHANGED <<films, data, materialList, pc, status, films0>>

\* ofstream fout("films.txt", ios::app) without the append flag
appendRecordTruncating(content, mat, index) ==
    mat \o <<NL>> \o FormatDouble(index) \o <<NL>>

\* addMaterial's write: fout("films.txt", ios::app) << mat << endl << index << endl
appendRecord(content, mat, index) ==
    content \o mat \o <<NL>> \o FormatDouble(index) \o <<NL>>

\* menu choice 3
addMaterial ==
    /\ pc = "menu"
    /\ Len(films) < MaxFile
    /\ \E mat \in UserNames, index \in UserIndex, saveMatIndex \in Answers :
       \E opened \in OpenOutcomes(saveMatIndex) :
        LET unknown == setIndex(setMat(DefaultFilm, mat), index)
            failed  == saveMatIndex = "y" /\ ~opened
        IN  /\ last' = [NoOp EXCEPT !.op = "ADD", !.save = saveMatIndex,
                                    !.film = [DefaultFilm EXCEPT !.mat = mat,
                                                                 !.index = index],
                                    !.fail = IF failed THEN "films.txt" ELSE "-",
                                    !.msg = IF failed THEN OutputFailMsg ELSE ""]
            /\ IF failed
               THEN /\ Terminate(0 - 1)
                    /\ UNCHANGED films
               ELSE /\ films' = IF saveMatIndex = "y"
                                THEN appendRecord(films, mat, index)
                                ELSE films
                    /\ UNCHANGED <<pc, status>>
    /\ UNCHANGED <<data, materialList, films0>>

\* menu choice 4
deleteFilm ==
    /\ pc = "menu"
    /\ \E entered \in DeletePositions(Len(materialList)), opened \in BOOLEAN :
        LET pos  == getFilmIndex(entered)
            op   == [NoOp EXCEPT !.op = "DELETE", !.pos = entered]
        IN  IF materialList = <<>>
            THEN \* the loop runs off an empty vector, then pop_back on it
                 /\ last' = op
                 /\ \/ /\ pc' = "crashed"
                       /\ UNCHANGED <<films, materialList, status>>
                    \/ /\ materialList' \in {<<g>> : g \in GarbageFilms}
                       /\ films' = saveData(materialList')
                       /\ UNCHANGED <<pc, status>>
            ELSE /\ materialList' = removeAt(materialList, pos)
                 /\ IF opened
                    THEN /\ films' = saveData(materialList')
                         /\ last' = op
                         /\ UNCHANGED <<pc, status>>
                    ELSE /\ Terminate(0 - 1)
                         /\ last' = [op EXCEPT !.fail = "films.txt",
                                               !.msg = OutputFailMsg]
                         /\ UNCHANGED films
    /\ UNCHANGED <<data, films0>>

\* menu choice 0: the loop ends, then cout << "\nGoodbye!\n"; return 0
Exit ==
    /\ pc = "menu"
    /\ IF whileChoice(EXIT)
       THEN /\ last' = [NoOp EXCEPT !.op = "EXIT"]
            /\ UNCHANGED <<pc, status>>
       ELSE /\ last' = [NoOp EXCEPT !.op = "EXIT", !.msg = Goodbye]
            /\ pc' = "exit"
            /\ status' = 0
    /\ UNCHANGED <<films, data, materialList, films0>>

\* a menu choice other than 0..4: nothing is dispatched
otherChoice ==
    /\ pc = "menu"
    /\ \E choice \in OtherChoices :
        /\ choice \notin {EXIT, CAL_THICKNESS, MATERIAL_LIST, ADD_MATERIAL,
                          DEL_MATERIAL}
        /\ IF whileChoice(choice)
           THEN /\ last' = [NoOp EXCEPT !.op = "OTHER"]
                /\ UNCHANGED <<pc, status>>
           ELSE /\ last' = [NoOp EXCEPT !.op = "OTHER", !.msg = Goodbye]
                /\ pc' = "exit"
                /\ status' = 0
    /\ UNCHANGED <<films, data, materialList, films0>>

Next ==
    \/ Load
    \/ calculateThickness
    \/ listFilms
    \/ addMaterial
    \/ deleteFilm
    \/ Exit
    \/ otherChoice

Spec == Init /\ [][Next]_vars

-----------------------------------------------------------------------------
(* The library store alone: load a file, then save what was loaded *)

InitStore ==
    /\ films \in LibraryFiles
    /\ films0 = films
    /\ data = <<>>
    /\ materialList = <<>>
    /\ pc = "start"
    /\ status = 0
    /\ last = NoOp

\* saveData(materialList, "films.txt") right after the load
SaveLoaded ==
    /\ pc = "menu"
    /\ last.op = "LOAD"
    /\ last' = [NoOp EXCEPT !.op = "SAVE"]
    /\ films' = saveData(materialList)
    /\ pc' = "saved"
    /\ UNCHANGED <<data, materialList, status, films0>>

NextStore ==
    \/ Load
    \/ SaveLoaded

SpecStore == InitStore /\ [][NextStore]_vars

-----------------------------------------------------------------------------
(* Calculations alone: a session that loads, calculates and exits *)

\* the library of the scenario: SiO2 1.46, Si3N4 2.05
SiO2 == <<"S", "i", "O", "2">>

Si3N4 == <<"S", "i", "3", "N", "4">>

ScenarioLibrary ==
    PairText(SiO2, <<"1", ".", "4", "6">>) \o PairText(Si3N4, <<"2", ".", "0", "5">>)

InitCalc ==
    /\ films \in {<<>>, ScenarioLibrary}
    /\ films0 = films
    /\ data = <<>>
    /\ materialList = <<>>
    /\ pc = "start"
    /\ status = 0
    /\ last = NoOp

\* calculateThickness with room for one more line in data.txt
calculateThicknessLogged == calcPass(MaxLog + 1)

NextCalc ==
    \/ Load
    \/ calculateThicknessLogged
    \/ Exit

SpecCalc == InitCalc /\ [][NextCalc]_vars

-----------------------------------------------------------------------------
(* One record alone: its setters and its thickness *)

\* field values of the record the operations start from
RecordIndex == {0, 500000, 990000, 1000000, 1250000, 1460000, 2050000}

RecordRange == {0, 25 * Scale, 50 * Scale}

RecordMaxima == {0, Scale, 2 * Scale, 3 * Scale}

\* values handed to the setters
SetterValues == {0 - 1500000, 0, 2 * Scale}

InitRecord ==
    /\ films = <<>>
    /\ films0 = films
    /\ data = <<>>
    /\ \E i \in RecordIndex, r \in RecordRange, m \in RecordMaxima :
          materialList = <<readCin(DefaultFilm, <<"s">>, i, r, m)>>
    /\ pc = "record"
    /\ status = 0
    /\ last = NoOp

\* film.getThickness()
callGetThickness ==
    /\ pc = "record"
    /\ last' = [NoOp EXCEPT !.op = "getThickness", !.film = materialList[1],
                            !.thickness = getThickness(materialList[1])]
    /\ UNCHANGED <<films, data, materialList, pc, status, films0>>

\* film.setIndex(v)
callSetIndex ==
    /\ pc = "record"
    /\ \E v \in SetterValues :
        /\ materialList' = <<setIndex(materialList[1], v)>>
        /\ last' = [NoOp EXCEPT !.op = "setIndex", !.value = v]
    /\ UNCHANGED <<films, data, pc, status, films0>>

\* film.setspectralRange(v)
callSetspectralRange ==
    /\ pc = "record"
    /\ \E v \in SetterValues :
        /\ materialList' = <<setspectralRange(materialList[1], v)>>
        /\ last' = [NoOp EXCEPT !.op = "setspectralRange", !.value = v]
    /\ UNCHANGED <<films, data, pc, status, films0>>

\* film.setnumberOfMaxima(v)
callSetnumberOfMaxima ==
    /\ pc = "record"
    /\ \E v \in SetterValues :
        /\ materialList' = <<setnumberOfMaxima(materialList[1], v)>>
        /\ last' = [NoOp EXCEPT !.op = "setnumberOfMaxima", !.value = v]
    /\ UNCHANGED <<films, data, pc, status, films0>>

NextRecord ==
    \/ callGetThickness
    \/ callSetIndex
    \/ callSetspectralRange
    \/ callSetnumberOfMaxima

SpecRecord == InitRecord /\ [][NextRecord]_vars

-----------------------------------------------------------------------------
(* How a reader of the library file sees it: lines, and (name, index) pairs *)

\* the lines of buf; a last line without a newline counts when it is not empty
RECURSIVE LinesOf(_)
LinesOf(buf) ==
    IF buf = <<>> THEN <<>>
    ELSE LET e == LineEnd(buf, 1)
         IN  <<SubSeq(buf, 1, e - 1)>> \o LinesOf(SubSeq(buf, e + 1, Len(buf)))

\* the number a line of decimal text denotes, in millionths
DecimalValue(line) == readDouble(line, StreamAt(1), 0).val

\* one (name, index) record for every complete pair of lines
PairsOf(buf) ==
    LET L == LinesOf(buf)
    IN  [i \in 1..(Len(L) \div 2) |->
            [mat |-> L[2 * i - 1], index |-> DecimalValue(L[2 * i])]]

\* buf is a whole number of pairs of lines, each line ending in a newline
MadeOfPairs(buf) ==
    /\ buf # <<>> => buf[Len(buf)] = NL
    /\ Len(LinesOf(buf)) % 2 = 0

\* the (name, index) of the records of a list
NameIndex(list) ==
    [i \in 1..Len(list) |-> [mat |-> list[i].mat, index |-> list[i].index]]

\* a record as the stream prints it: the index with six significant digits
Printed(rec) == [mat |-> rec.mat, index |-> FormatDouble(rec.index)]

\* the records of the library file, as printed
FileKeys(buf) ==
    LET P == PairsOf(buf) IN [i \in 1..Len(P) |-> Printed(P[i])]

Range(seq) == {seq[i] : i \in 1..Len(seq)}

Count(seq, x) == Cardinality({i \in 1..Len(seq) : seq[i] = x})

-----------------------------------------------------------------------------
(* C1 *)

\* C1: in every step of a session, a record of the library file is still in
\* the file afterwards (as many copies as before), unless the step is a DELETE
\* whose entered position is that record's position, which may take away one
\* copy of it.  (A DELETE of a position that the list shown does not have is
\* left out of this statement.)
C1_OnlyDeleteRemovesRecords ==
    [][films' # films =>
          LET before == FileKeys(films)
              after  == FileKeys(films')
          IN  \A r \in Range(before) :
                 \/ Count(after, r) >= Count(before, r)
                 \/ /\ last'.op = "DELETE"
                    /\ \/ last'.pos \notin 1..Len(materialList)
                       \/ /\ last'.pos \in 1..Len(before)
                          /\ before[last'.pos] = r
                          /\ Count(after, r) >= Count(before, r) - 1]_vars

-----------------------------------------------------------------------------
(* C2 *)

\* C2: a copy of a library record made by a CALCULATE that draws from the
\* library is never written to the library file.  The user of this model never
\* types the name of a material of the startup library, so such a copy is the
\* only possible source of one more file record with a startup material's
\* (name, index): the number of file records of each startup material never
\* grows.
C2_LibraryCopyNeverWritten ==
    [][films' # films =>
          LET before == FileKeys(films)
              after  == FileKeys(films')
          IN  \A r \in Range(FileKeys(films0)) :
                 Count(after, r) <= Count(before, r)]_vars

-----------------------------------------------------------------------------
(* C3 *)

\* C3: a DELETE of entered position k, 1 <= k <= N, on a list of size N leaves
\* a list of size N - 1 whose positions 1..k-1 are unchanged and whose position
\* j - 1 holds what position j held, for every j > k.
C3_DeleteShiftsLeft ==
    [][(last'.op = "DELETE" /\ last'.pos \in 1..Len(materialList)) =>
          LET k == last'.pos
              N == Len(materialList)
          IN  /\ Len(materialList') = N - 1
              /\ \A j \in 1..(k - 1) : materialList'[j] = materialList[j]
              /\ \A j \in (k + 1)..N : materialList'[j - 1] = materialList[j]]_vars

\* position 2 of a list of three was deleted: s stayed first, u moved left
C3_Witness ==
    /\ last.op = "DELETE"
    /\ last.pos = 2
    /\ Len(materialList) = 2
    /\ materialList[1].mat = <<"s">>
    /\ materialList[2].mat = <<"u">>

-----------------------------------------------------------------------------
(* C4 *)

\* C4: when a direct-input CALCULATE is answered y at "Save material and
\* index" and runs to its end, the library file afterwards holds the records
\* it held before, followed by the one record entered.
C4_DirectSaveAppendsOneRecord ==
    [][(/\ last'.op = "CALC"
        /\ last'.lib = "n"
        /\ last'.save = "y"
        /\ pc' \in {"menu", "calc"}) =>
          FileKeys(films') = Append(FileKeys(films), Printed(last'.film))]_vars

-----------------------------------------------------------------------------
(* C5 *)

\* C5: ADD leaves the in-memory list as it was; answered y (and the file
\* opening), it leaves the old content of the library file in place and adds
\* after it exactly one record, the name and the index entered; with any other
\* answer the file is unchanged too.
C5_AddAppendsOneRecord ==
    [][last'.op = "ADD" =>
          /\ materialList' = materialList
          /\ IF last'.save = "y" /\ pc' # "terminated"
             THEN LET added == SubSeq(films', Len(films) + 1, Len(films'))
                  IN  /\ Len(films') > Len(films)
                      /\ SubSeq(films', 1, Len(films)) = films
                      /\ added[Len(added)] = NL
                      /\ Len(LinesOf(added)) = 2
                      /\ FileKeys(added) = <<Printed(last'.film)>>
             ELSE films' = films]_vars

\* an ADD answered y has run: the file holds more records than the list
C5_Witness ==
    /\ last.op = "ADD"
    /\ last.save = "y"
    /\ pc = "menu"
    /\ materialList # <<>>
    /\ Len(PairsOf(films)) = Len(materialList) + 1

-----------------------------------------------------------------------------
(* C6 *)

\* C6: after a DELETE of a position of the list shown that ran to its end,
\* the (name, index) pairs of the library file are those of the in-memory
\* list, in list order.
C6_FileIsListAfterDelete ==
    (last.op = "DELETE" /\ pc = "menu" /\ last.pos \in 1..(Len(materialList) + 1)) =>
        PairsOf(films) = NameIndex(materialList)

-----------------------------------------------------------------------------
(* C7 *)

\* C7: every record in memory, in the list or written to the log, has a
\* refractive index, a spectral range and a fringe count that are >= 0.
C7_FieldsNeverNegative ==
    \A f \in Range(materialList) \cup Range(data) :
        f.index >= 0 /\ f.spectralRange >= 0 /\ f.numberOfMaxima >= 0

-----------------------------------------------------------------------------
(* C8 *)

\* C8: after an ADD of a negative refractive index answered y, the last
\* record of the library file has index 0.
C8_AddWritesClampedIndex ==
    (last.op = "ADD" /\ last.save = "y" /\ last.film.index < 0 /\ pc = "menu") =>
        LET R == PairsOf(films)
        IN  R # <<>> /\ R[Len(R)].index = 0

-----------------------------------------------------------------------------
(* C9 *)

\* C9: saving what was loaded from a library file made of (name line, index
\* line) pairs, every line ending in a newline, gives a file with the same
\* (name, index) pairs, in the same order, as the file loaded.
C9_SaveAfterLoadKeepsPairs ==
    (pc = "saved" /\ MadeOfPairs(films0)) => PairsOf(films) = PairsOf(films0)

-----------------------------------------------------------------------------
(* C10 *)

\* C10: load returns, in file order, one record for every complete pair of
\* lines of the file, the last index line ending in a newline or not, and
\* drops only a last name line that has no index line.
C10_LoadReturnsEveryCompletePair ==
    (last.op = "LOAD" /\ pc = "menu") => NameIndex(materialList) = PairsOf(films0)

-----------------------------------------------------------------------------
(* C11 *)

\* C11: a step in which the open of films.txt or of data.txt fails prints the
\* message of that open, leaves the file as it was and ends the process with
\* a status other than 0; and no step at all is taken by a process that has
\* ended this way.
C11_OpenFailureTerminates ==
    [][/\ pc # "terminated"
       /\ last'.fail # "-" =>
             /\ pc' = "terminated"
             /\ status' # 0
             /\ last'.msg = IF last'.op = "LOAD" THEN LoadFailMsg ELSE OutputFailMsg
             /\ last'.fail = "films.txt" => films' = films
             /\ last'.fail = "data.txt" => data' = data]_vars

\* the rewrite of films.txt in a DELETE on a list of two failed to open
C11_Witness ==
    /\ last.op = "DELETE"
    /\ last.fail = "films.txt"
    /\ pc = "terminated"
    /\ status # 0
    /\ Len(PairsOf(films)) = 2

-----------------------------------------------------------------------------
(* C12 *)

\* C12: an operation is dispatched from the menu only (a further pass of
\* CALCULATE also from the pass before it); a dispatched operation ends in the
\* menu unless the process ended or crashed in it or CALCULATE goes on to
\* another pass; choice 0 is taken in the menu, prints the farewell and ends
\* the session with status 0; and after that no step is taken.
C12_MenuLoop ==
    [][/\ pc # "exit"
       /\ last'.op \in {"LIST", "ADD", "DELETE"} =>
             pc = "menu" /\ pc' \in {"menu", "terminated", "crashed"}
       /\ last'.op = "CALC" =>
             pc \in {"menu", "calc"} /\ pc' \in {"menu", "calc", "terminated", "crashed"}
       /\ last'.op = "EXIT" =>
             /\ pc = "menu"
             /\ pc' = "exit"
             /\ status' = 0
             /\ last'.msg = Goodbye
             /\ UNCHANGED <<films, data, materialList>>]_vars

\* choice 0 was taken after the library file had been changed
C12_Witness ==
    /\ last.op = "EXIT"
    /\ pc = "exit"
    /\ status = 0
    /\ films # films0

-----------------------------------------------------------------------------
(* C13 *)

\* n in hundredths, for an index that is a whole number of hundredths
Hundredths(v) == v \div 10000

\* (count * d)^2 * (n^2 - 1) in units of 1/10000, for whole count and d
SquareOfTwiceFormula(film) ==
    LET p == (film.numberOfMaxima \div Scale) * (film.spectralRange \div Scale)
        n == Hundredths(film.index)
    IN  p * p * (n * n - 10000)

-----------------------------------------------------------------------------
(* C14 *)

\* a double rounded to tenths, as setprecision(1) prints it
Tenths(v) == (v + 50000) \div 100000

\* a CALCULATE from the library, position 2, range 50 and 3 maxima, on a list
\* that starts with SiO2 1.46 and Si3N4 2.05; last' holds what it measured
ScenarioCalc ==
    /\ Len(materialList) >= 2
    /\ NameIndex(SubSeq(materialList, 1, 2)) =
          <<[mat |-> SiO2, index |-> 1460000], [mat |-> Si3N4, index |-> 2050000]>>
    /\ last'.op = "CALC"
    /\ last'.lib = "y"
    /\ last'.pos = 2
    /\ last'.film.spectralRange = 50 * Scale
    /\ last'.film.numberOfMaxima = 3 * Scale

-----------------------------------------------------------------------------
(* C15 *)

\* C15: LIST on a list of N films prints the header row and then N rows; row
\* i carries the number i, the name of the i-th film and its index to two
\* decimals (the number shown is within 0.005 of the index); for N = 0 only
\* the header is printed; the list, films.txt and data.txt are unchanged.
C15_ListPrintsEveryRecord ==
    [][last'.op = "LIST" =>
          LET rows == last'.rows
              N    == Len(materialList)
          IN  /\ Len(rows) = N + 1
              /\ rows[1] = HeaderRow
              /\ \A i \in 1..N :
                    /\ rows[i + 1].num = i
                    /\ rows[i + 1].mat = materialList[i].mat
                    /\ Abs(DecimalValue(rows[i + 1].index) - materialList[i].index)
                          <= 5000
              /\ UNCHANGED <<materialList, films, data>>]_vars

\* a list of two films, the second with a negative index, was listed
C15_Witness ==
    /\ last.op = "LIST"
    /\ Len(materialList) = 2
    /\ Len(last.rows) = 3
    /\ last.rows[3].num = 2
    /\ last.rows[3].mat = <<"u">>
    /\ last.rows[2].index = <<"1", ".", "4", "6">>

-----------------------------------------------------------------------------
(* C16 *)

\* C16: a call of setIndex, setspectralRange or setnumberOfMaxima with value
\* v leaves a record whose field of that name is 0 when v < 0 and v when
\* v >= 0, and whose three other fields are as they were.
C16_SettersClampNegative ==
    [][last'.op \in {"setIndex", "setspectralRange", "setnumberOfMaxima"} =>
          LET v      == last'.value
              stored == IF v < 0 THEN 0 ELSE v
              old    == materialList[1]
              new    == materialList'[1]
          IN  /\ new.mat = old.mat
              /\ new.index =
                    IF last'.op = "setIndex" THEN stored ELSE old.index
              /\ new.spectralRange =
                    IF last'.op = "setspectralRange" THEN stored
                    ELSE old.spectralRange
              /\ new.numberOfMaxima =
                    IF last'.op = "setnumberOfMaxima" THEN stored
                    ELSE old.numberOfMaxima]_vars

\* setnumberOfMaxima was called with a negative value on a record whose
\* other fields are not 0
C16_Witness ==
    /\ last.op = "setnumberOfMaxima"
    /\ last.value < 0
    /\ materialList[1].numberOfMaxima = 0
    /\ materialList[1].index = 2050000
    /\ materialList[1].spectralRange = 50 * Scale

-----------------------------------------------------------------------------
(* C17 *)

\* C17: a pass of CALCULATE that reaches the save-measurement question
\* and is answered y (the log opening) leaves data.txt with its earlier lines
\* in place and one more line, that of the film measured, at its end; with
\* any other answer, or when the question is not reached, data.txt is as it
\* was.  Whatever the answer, the list is the list before the pass plus the one
\* film the pass pushed, and films.txt is what the pass's own save wrote, or
\* as it was when the pass saved nothing.
C17_LogAppendOnly ==
    [][(last'.op = "CALC" /\ pc' # "crashed") =>
          /\ IF last'.log = "y" /\ last'.fail = "-"
             THEN /\ Len(data') = Len(data) + 1
                  /\ SubSeq(data', 1, Len(data)) = data
                  /\ data'[Len(data')] = last'.film
             ELSE data' = data
          /\ Len(materialList') = Len(materialList) + 1
          /\ SubSeq(materialList', 1, Len(materialList)) = materialList
          /\ IF last'.save = "y" /\ last'.fail # "films.txt"
             THEN FileKeys(films') =
                    [i \in 1..Len(materialList') |->
                        Printed(NameIndex(materialList')[i])]
             ELSE films' = films]_vars

\* a second line was added to the log by a pass that saved nothing else
C17_Witness ==
    /\ last.op = "CALC"
    /\ last.log = "y"
    /\ last.save # "y"
    /\ last.fail = "-"
    /\ Len(data) = 2
    /\ data[2] = last.film
    /\ films = films0

-----------------------------------------------------------------------------
(* C18 *)

\* C18: a DELETE on a list of N >= 1 films with an entered position outside
\* 1..N leaves the first N - 1 films, in order, and nothing else; when the
\* rewrite opens, films.txt then holds the records of that list, as printed.
C18_OutOfRangeDeleteRemovesLast ==
    [][(/\ last'.op = "DELETE"
        /\ materialList # <<>>
        /\ last'.pos \notin 1..Len(materialList)) =>
          /\ materialList' = SubSeq(materialList, 1, Len(materialList) - 1)
          /\ last'.fail = "-" =>
                FileKeys(films') =
                   [i \in 1..Len(materialList') |->
                       Printed(NameIndex(materialList')[i])]]_vars

\* position 0 was entered on a list of s and u: s is left, in memory and in
\* the file
C18_Witness ==
    /\ last.op = "DELETE"
    /\ last.pos = 0
    /\ last.fail = "-"
    /\ Len(materialList) = 1
    /\ materialList[1].mat = <<"s">>
    /\ Len(PairsOf(films)) = 1

-----------------------------------------------------------------------------
(* C19 *)

\* C19: a DELETE on an empty list, whatever position is entered, does not
\* crash, leaves the list empty and leaves an empty films.txt.
C19_DeleteOnEmptyListIsSafe ==
    [][(last'.op = "DELETE" /\ materialList = <<>>) =>
          /\ pc' # "crashed"
          /\ materialList' = <<>>
          /\ films' = <<>>]_vars

====
